---- MODULE Spec2Model ----
(***************************************************************************)
(* Model of the nutrition lookup function of health-tracker               *)
(* (src/Api/nutrition.js): the request handler, the API Ninjas client,     *)
(* the Open Food Facts client and the portion inference; and of the local  *)
(* estimator of the page (src/src/src/App.jsx, estimateFood), which has a  *)
(* specification of its own, SpecLocal.                                    *)
(* The file declares handler twice; the model is of the later declaration  *)
(* (line 32, "Flexible nutrition lookup") and the functions it calls.      *)
(*                                                                         *)
(* Representation.                                                         *)
(*  - A JavaScript string is a sequence of one-character strings.          *)
(*  - A JavaScript value is a record [t, n, s]: t is its kind ("undefined",*)
(*    "null", "number", "NaN", "string", "object"), n the value of a       *)
(*    number, s the characters of a string.                                *)
(*  - A finite number is a fixed-point integer counting hundredths         *)
(*    (Scale = 100): 1.5 is 150, 330 is 33000. NaN is a value of its own   *)
(*    kind and is absorbing for arithmetic, false for every comparison.    *)
(***************************************************************************)
EXTENDS Integers, Sequences, FiniteSets, TLC

(***************************************************************************)
(* Bounds of the model and constants of the program                        *)
(***************************************************************************)
MaxItems == 2          \* longest item list in an API Ninjas reply
MaxProducts == 2       \* longest product list in an Open Food Facts reply

Scale == 100           \* fixed point: hundredths, the precision of round2
DefaultPortionG == 100 \* `|| 100`
PerHundred == 100      \* factor = portionG / 100
KjPerKcalMilli == 4184 \* kjPer100 / 4.184

(***************************************************************************)
(* Characters and strings                                                  *)
(***************************************************************************)
Digits == {"0", "1", "2", "3", "4", "5", "6", "7", "8", "9"}

LowerLetters ==
  {"a", "b", "c", "d", "e", "f", "g", "h", "i", "j", "k", "l", "m",
   "n", "o", "p", "q", "r", "s", "t", "u", "v", "w", "x", "y", "z"}

UpperLetters == {"G", "X", "M", "R", "A", "S"}

IsDigit(c) == c \in Digits

\* \s of the regular expressions and the white space String.prototype.trim removes
IsSpace(c) == c = " "

\* \w of the regular expressions, which decides \b
IsWordChar(c) == c \in Digits \cup LowerLetters \cup UpperLetters \cup {"_"}

\* the /i flag: letters compare without case
Lower(c) ==
  CASE c = "G" -> "g"
    [] c = "X" -> "x"
    [] c = "M" -> "m"
    [] c = "R" -> "r"
    [] c = "A" -> "a"
    [] c = "S" -> "s"
    [] OTHER -> c

DigitVal(c) ==
  CASE c = "0" -> 0 [] c = "1" -> 1 [] c = "2" -> 2 [] c = "3" -> 3
    [] c = "4" -> 4 [] c = "5" -> 5 [] c = "6" -> 6 [] c = "7" -> 7
    [] c = "8" -> 8 [] c = "9" -> 9

\* String.prototype.trim
RECURSIVE TrimLeft(_)
TrimLeft(s) ==
  IF s # <<>> /\ IsSpace(Head(s)) THEN TrimLeft(Tail(s)) ELSE s

RECURSIVE TrimRight(_)
TrimRight(s) ==
  IF s # <<>> /\ IsSpace(s[Len(s)]) THEN TrimRight(SubSeq(s, 1, Len(s) - 1)) ELSE s

Trim(s) == TrimRight(TrimLeft(s))

\* the position after the longest run of digits that starts at i (\d+, greedy)
RECURSIVE DigitsEnd(_, _)
DigitsEnd(s, i) ==
  IF i <= Len(s) /\ IsDigit(s[i]) THEN DigitsEnd(s, i + 1) ELSE i

\* the position after the longest run of white space that starts at i (\s*, greedy)
RECURSIVE SpacesEnd(_, _)
SpacesEnd(s, i) ==
  IF i <= Len(s) /\ IsSpace(s[i]) THEN SpacesEnd(s, i + 1) ELSE i

\* the position after \d+(?:\.\d+)? taken greedily from i (s[i] is a digit)
NumberEnd(s, i) ==
  LET j == DigitsEnd(s, i)
  IN  IF j + 1 <= Len(s) /\ s[j] = "." /\ IsDigit(s[j + 1])
      THEN DigitsEnd(s, j + 1)
      ELSE j

\* the integer written by the digits s[i .. j-1]
RECURSIVE IntOf(_, _, _)
IntOf(s, i, j) ==
  IF j <= i THEN 0 ELSE 10 * IntOf(s, i, j - 1) + DigitVal(s[j - 1])

\* parseFloat of the text s[i .. e-1], which has the shape \d+(\.\d+)?, in
\* hundredths (digits after the second decimal place are below the precision
\* of the model)
DecimalValue(s, i, e) ==
  LET j == DigitsEnd(s, i)
      d1 == IF j + 1 < e THEN DigitVal(s[j + 1]) ELSE 0
      d2 == IF j + 2 < e THEN DigitVal(s[j + 2]) ELSE 0
  IN  IntOf(s, i, j) * Scale + 10 * d1 + d2

\* s has the literal word w (lower case) at position i, case-insensitively
HasWordAt(s, i, w) ==
  /\ i + Len(w) - 1 <= Len(s)
  /\ \A k \in 1..Len(w) : Lower(s[i + k - 1]) = w[k]

\* \b after a word character that ends at position i - 1
BoundaryAt(s, i) == i > Len(s) \/ ~IsWordChar(s[i])

(***************************************************************************)
(* JavaScript values                                                       *)
(***************************************************************************)
JsUndefined == [t |-> "undefined", n |-> 0, s |-> <<>>]
JsNull == [t |-> "null", n |-> 0, s |-> <<>>]
JsNaN == [t |-> "NaN", n |-> 0, s |-> <<>>]
JsObject == [t |-> "object", n |-> 0, s |-> <<>>]
JsNum(n) == [t |-> "number", n |-> n, s |-> <<>>]
JsStr(s) == [t |-> "string", n |-> 0, s |-> s]

\* n units as a number value (n * Scale hundredths)
Units(n) == JsNum(n * Scale)

IsNumber(v) == v.t = "number"

\* ToBoolean: undefined, null, NaN, 0 and "" are falsy
Truthy(v) ==
  CASE v.t = "number" -> v.n # 0
    [] v.t = "string" -> v.s # <<>>
    [] v.t = "object" -> TRUE
    [] OTHER -> FALSE

\* Number(string): the trimmed text is empty (0), a decimal literal, or not a
\* number (NaN)
StringToNumber(s) ==
  LET u == Trim(s)
  IN  IF u = <<>> THEN JsNum(0)
      ELSE IF IsDigit(u[1]) /\ NumberEnd(u, 1) = Len(u) + 1
           THEN JsNum(DecimalValue(u, 1, Len(u) + 1))
           ELSE JsNaN

\* Number(v)
ToNumber(v) ==
  CASE v.t = "number" -> v
    [] v.t = "string" -> StringToNumber(v.s)
    [] v.t = "null" -> JsNum(0)
    [] OTHER -> JsNaN

\* parseFloat(v): the longest decimal prefix after leading white space
ParseFloat(v) ==
  CASE v.t = "number" -> v
    [] v.t = "string" ->
         LET u == TrimLeft(v.s)
         IN  IF u # <<>> /\ IsDigit(u[1])
             THEN JsNum(DecimalValue(u, 1, NumberEnd(u, 1)))
             ELSE JsNaN
    [] OTHER -> JsNaN

\* a + b on numbers
Add(a, b) == IF IsNumber(a) /\ IsNumber(b) THEN JsNum(a.n + b.n) ELSE JsNaN

\* v > 0 and v <= 0; both are false of NaN
GtZero(v) == IsNumber(v) /\ v.n > 0
LeZero(v) == IsNumber(v) /\ v.n <= 0

\* const num = (v) => (v ? Number(v) : 0)
num(v) == IF Truthy(v) THEN ToNumber(v) ELSE JsNum(0)

\* Math.round(a / b) for b > 0 and even: the nearest integer, halves upwards
RoundDiv(a, b) == (a + b \div 2) \div b

\* const round2 = (v) => Math.round((v + Number.EPSILON) * 100) / 100, applied
\* to the product x * factor with factor = portionG / 100
round2Scaled(x, portionG) ==
  IF IsNumber(x) /\ IsNumber(portionG)
  THEN JsNum(RoundDiv(x.n * portionG.n, PerHundred * Scale))
  ELSE JsNaN

\* Math.round(x * factor) with factor = portionG / 100
RoundScaled(x, portionG) ==
  IF IsNumber(x) /\ IsNumber(portionG)
  THEN JsNum(RoundDiv(x.n * portionG.n, PerHundred * Scale * Scale) * Scale)
  ELSE JsNaN

\* Math.round(kjPer100 / 4.184)
KjToKcal(kj) ==
  IF IsNumber(kj)
  THEN JsNum(RoundDiv(kj.n * 10, KjPerKcalMilli) * Scale)
  ELSE JsNaN

(***************************************************************************)
(* The three regular expressions of portionFromQueryOrProduct.  A match is *)
(* searched from the leftmost start; at a start the quantifiers are greedy *)
(* and the only backtracking that can succeed gives up the optional        *)
(* fraction.  A match is [ok |-> TRUE, v |-> the value of what the code    *)
(* computes from the captured groups]; no match is NoMatch (null).         *)
(***************************************************************************)
NoMatch == [ok |-> FALSE, v |-> 0]

\* (g|gram|grams)\b at position k
QueryUnitAt(s, k) ==
  \E w \in {<<"g">>, <<"g", "r", "a", "m">>, <<"g", "r", "a", "m", "s">>} :
    HasWordAt(s, k, w) /\ BoundaryAt(s, k + Len(w))

\* the end of the captured number of /(\d+(?:\.\d+)?)\s*(g|gram|grams)\b/i
\* matched at start i, or 0
QueryGramsAt(s, i) ==
  IF ~IsDigit(s[i]) THEN 0
  ELSE IF QueryUnitAt(s, SpacesEnd(s, NumberEnd(s, i))) THEN NumberEnd(s, i)
  ELSE IF QueryUnitAt(s, SpacesEnd(s, DigitsEnd(s, i))) THEN DigitsEnd(s, i)
  ELSE 0

\* query.match(/(\d+(?:\.\d+)?)\s*(g|gram|grams)\b/i), then parseFloat(m[1])
MatchQueryGrams(s) ==
  LET I == {i \in 1..Len(s) : QueryGramsAt(s, i) # 0}
  IN  IF I = {} THEN NoMatch
      ELSE LET i == CHOOSE x \in I : \A y \in I : x <= y
           IN  [ok |-> TRUE, v |-> DecimalValue(s, i, QueryGramsAt(s, i))]

\* the end of the captured number of /(\d+(?:\.\d+)?)\s*g/i matched at start i, or 0
GramsAt(s, i) ==
  IF ~IsDigit(s[i]) THEN 0
  ELSE IF HasWordAt(s, SpacesEnd(s, NumberEnd(s, i)), <<"g">>) THEN NumberEnd(s, i)
  ELSE IF HasWordAt(s, SpacesEnd(s, DigitsEnd(s, i)), <<"g">>) THEN DigitsEnd(s, i)
  ELSE 0

\* s.match(/(\d+(?:\.\d+)?)\s*g/i), then parseFloat of group 1
MatchGrams(s) ==
  LET I == {i \in 1..Len(s) : GramsAt(s, i) # 0}
  IN  IF I = {} THEN NoMatch
      ELSE LET i == CHOOSE x \in I : \A y \in I : x <= y
           IN  [ok |-> TRUE, v |-> DecimalValue(s, i, GramsAt(s, i))]

\* the start of group 2 of /(\d+)\s*x\s*(\d+(?:\.\d+)?)\s*g/i matched at start i, or 0
MultipackSecondAt(s, i) ==
  IF ~IsDigit(s[i]) THEN 0
  ELSE LET k == SpacesEnd(s, DigitsEnd(s, i))
       IN  IF ~HasWordAt(s, k, <<"x">>) THEN 0
           ELSE LET m == SpacesEnd(s, k + 1)
                IN  IF m <= Len(s) /\ GramsAt(s, m) # 0 THEN m ELSE 0

\* s.match(/(\d+)\s*x\s*(\d+(?:\.\d+)?)\s*g/i), then
\* parseInt(q2[1], 10) * parseFloat(q2[2])
MatchMultipack(s) ==
  LET I == {i \in 1..Len(s) : MultipackSecondAt(s, i) # 0}
  IN  IF I = {} THEN NoMatch
      ELSE LET i == CHOOSE x \in I : \A y \in I : x <= y
               m == MultipackSecondAt(s, i)
           IN  [ok |-> TRUE,
                v |-> IntOf(s, i, DigitsEnd(s, i)) * DecimalValue(s, m, GramsAt(s, m))]

(***************************************************************************)
(* Results of the two clients: null, an exception that leaves the          *)
(* function, or { kcal, protein_g, carbs_g, fat_g }                        *)
(***************************************************************************)
Null ==
  [tag |-> "null", kcal |-> JsUndefined, protein_g |-> JsUndefined,
   carbs_g |-> JsUndefined, fat_g |-> JsUndefined]

Thrown ==
  [tag |-> "throw", kcal |-> JsUndefined, protein_g |-> JsUndefined,
   carbs_g |-> JsUndefined, fat_g |-> JsUndefined]

Totals(k, p, c, f) ==
  [tag |-> "totals", kcal |-> k, protein_g |-> p, carbs_g |-> c, fat_g |-> f]

(***************************************************************************)
(* fetchFromApiNinjas, after the reply has arrived                         *)
(***************************************************************************)
\* an element of the reply's array (null is an element without properties)
Item(cal, p, c, f) ==
  [isNull |-> FALSE, calories |-> cal, protein_g |-> p,
   carbohydrates_total_g |-> c, fat_total_g |-> f]

NullItem ==
  [isNull |-> TRUE, calories |-> JsUndefined, protein_g |-> JsUndefined,
   carbohydrates_total_g |-> JsUndefined, fat_total_g |-> JsUndefined]

\* for (const it of items) { totals.kcal += num(it.calories); ... }
\* reading a property of a null element throws
RECURSIVE SumItems(_, _)
SumItems(totals, items) ==
  IF items = <<>> THEN totals
  ELSE LET it == Head(items)
       IN  IF it.isNull THEN Thrown
           ELSE SumItems(Totals(Add(totals.kcal, num(it.calories)),
                                Add(totals.protein_g, num(it.protein_g)),
                                Add(totals.carbs_g, num(it.carbohydrates_total_g)),
                                Add(totals.fat_g, num(it.fat_total_g))),
                         Tail(items))

\* fetchFromApiNinjas without `if (totals.kcal <= 0) return null`
ApiNinjasResultUnguarded(reply) ==
  IF reply.kind \in {"network_error", "bad_json"} THEN Thrown
  ELSE IF reply.kind = "http_error" THEN Null
  ELSE IF ~reply.isArray \/ reply.list = <<>> THEN Null
  ELSE SumItems(Totals(JsNum(0), JsNum(0), JsNum(0), JsNum(0)), reply.list)

\* lines 56-68: the value fetchFromApiNinjas returns for a settled fetch
ApiNinjasResult(reply) ==
  IF reply.kind \in {"network_error", "bad_json"} THEN Thrown
  ELSE IF reply.kind = "http_error" THEN Null
  ELSE IF ~reply.isArray \/ reply.list = <<>> THEN Null
  ELSE LET totals == SumItems(Totals(JsNum(0), JsNum(0), JsNum(0), JsNum(0)),
                              reply.list)
       IN  IF totals.tag = "throw" THEN Thrown
           ELSE IF LeZero(totals.kcal) THEN Null
           ELSE totals

(***************************************************************************)
(* fetchFromOpenFoodFacts, after the reply has arrived                     *)
(***************************************************************************)
\* a product; the fields of p.nutriments are kept with the product, an absent
\* nutriments object being one whose fields are all undefined (`|| {}`)
NullProduct ==
  [isNull |-> TRUE,
   energy_kcal_100g |-> JsUndefined, energy_100g |-> JsUndefined,
   proteins_100g |-> JsUndefined, carbohydrates_100g |-> JsUndefined,
   carbohydrates_total_g |-> JsUndefined, fat_100g |-> JsUndefined,
   serving_size |-> JsUndefined, product_quantity |-> JsUndefined,
   quantity |-> JsUndefined]

\* function portionFromQueryOrProduct(query, product): a number, null, or the
\* TypeError of calling .match on a quantity that is not a string
portionFromQueryOrProduct(query, product) ==
  LET m == MatchQueryGrams(query)
      ss == product.serving_size
      pq == product.product_quantity
      qt == product.quantity
  IN  IF m.ok THEN JsNum(m.v)
      ELSE IF ss.t = "string" /\ MatchGrams(ss.s).ok THEN JsNum(MatchGrams(ss.s).v)
      ELSE IF Truthy(pq) /\ GtZero(ParseFloat(pq)) THEN ParseFloat(pq)
      ELSE IF Truthy(qt)
           THEN IF qt.t # "string" THEN [t |-> "throw", n |-> 0, s |-> <<>>]
                ELSE IF MatchGrams(qt.s).ok THEN JsNum(MatchGrams(qt.s).v)
                ELSE IF MatchMultipack(qt.s).ok THEN JsNum(MatchMultipack(qt.s).v)
                ELSE JsNull
           ELSE JsNull

\* function hasNutriments(p), as a truth value
hasNutriments(p) ==
  \/ Truthy(p.energy_kcal_100g)
  \/ Truthy(p.energy_100g)
  \/ Truthy(p.proteins_100g)
  \/ Truthy(p.carbohydrates_100g)
  \/ Truthy(p.fat_100g)

\* products[0] whatever its nutriments are
PickFirstProduct(products) == products[1]

\* products.find(hasNutriments) || products[0], for a non-empty list
PickProduct(products) ==
  LET I == {i \in 1..Len(products) : hasNutriments(products[i])}
  IN  IF I = {} THEN products[1]
      ELSE products[CHOOSE i \in I : \A j \in I : i <= j]

\* kcal per 100 g from energy-kcal_100g alone, without the kJ fallback
KcalPer100DirectOnly(p) == num(p.energy_kcal_100g)

\* lines 87-92: kcal per 100 g, from energy-kcal_100g or from energy_100g (kJ)
KcalPer100(p) ==
  LET direct == num(p.energy_kcal_100g)
      kj == num(p.energy_100g)
  IN  IF Truthy(direct) THEN direct
      ELSE IF Truthy(kj) THEN KjToKcal(kj)
      ELSE direct

\* line 95: portionFromQueryOrProduct(query, p) || 100
PortionG(query, p) ==
  LET r == portionFromQueryOrProduct(query, p)
  IN  IF r.t = "throw" THEN r
      ELSE IF Truthy(r) THEN r
      ELSE Units(DefaultPortionG)

\* lines 76-104: the value fetchFromOpenFoodFacts returns for a settled fetch
OpenFoodFactsResult(query, reply) ==
  IF reply.kind \in {"network_error", "bad_json"} THEN Thrown
  ELSE IF reply.kind = "http_error" THEN Null
  ELSE IF ~reply.isArray \/ reply.list = <<>> THEN Null
  ELSE LET p == PickProduct(reply.list)
       IN  IF p.isNull \/ ~hasNutriments(p) THEN Null
           ELSE IF ~Truthy(KcalPer100(p)) THEN Null
           ELSE LET portionG == PortionG(query, p)
                    carbs == IF Truthy(num(p.carbohydrates_100g))
                             THEN num(p.carbohydrates_100g)
                             ELSE num(p.carbohydrates_total_g)
                IN  IF portionG.t = "throw" THEN Thrown
                    ELSE Totals(RoundScaled(KcalPer100(p), portionG),
                                round2Scaled(num(p.proteins_100g), portionG),
                                round2Scaled(carbs, portionG),
                                round2Scaled(num(p.fat_100g), portionG))

(***************************************************************************)
(* Inputs: the requests, the environment and the replies of the two        *)
(* upstream services the model draws from                                  *)
(***************************************************************************)
Chicken == <<"c", "h", "i", "c", "k", "e", "n">>

\* texts of ?q= that name a food, with and without a gram quantity
QueryTexts ==
  { Chicken,
    <<"2", "0", "0", "g", " ">> \o Chicken,
    <<" ", "2", "5", "0", " ", "G", "r", "a", "m", "s", " ", "r", "i", "c", "e", " ">>,
    <<"1", ".", "5", " ", "g", "r", "a", "m", " ", "s", "a", "l", "t">>,
    <<"0", "g", " ", "h", "a", "m">>,
    <<"1", "0", "0", " ", "g", "r", "a", "p", "e", "s">>,
    <<"2", " ", "e", "g", "g", "s">> }

\* req.query: q and query, each absent or a string
Requests ==
  {[q |-> JsStr(s), query |-> JsUndefined] : s \in QueryTexts \cup {<<>>, <<" ", " ">>}}
  \cup {[q |-> JsUndefined, query |-> JsUndefined],
        [q |-> JsUndefined, query |-> JsStr(Chicken)],
        [q |-> JsStr(<<>>), query |-> JsStr(<<"2", "0", "0", "g", " ">> \o Chicken)],
        [q |-> JsStr(<<" ", " ">>), query |-> JsStr(Chicken)]}

\* process.env.API_NINJAS_KEY: unset, empty or set
Keys == {JsUndefined, JsStr(<<>>), JsStr(<<"k", "e", "y">>)}

Abc == JsStr(<<"a", "b", "c">>)

\* elements of an API Ninjas reply: complete, partial, empty, zero, negative,
\* non-numeric and numeric-string fields, and null
ItemSamples ==
  { Item(Units(100), Units(10), Units(20), Units(3)),
    Item(Units(50), Units(5), JsUndefined, JsNull),
    Item(JsUndefined, JsUndefined, JsUndefined, JsUndefined),
    Item(Units(0), Units(0), Units(0), Units(0)),
    Item(Units(-50), Units(-5), Units(0), Units(0)),
    Item(Abc, Units(5), Units(1), Units(1)),
    Item(Units(100), Abc, JsUndefined, Units(-3)),
    Item(JsStr(<<"1", "2", ".", "5">>), JsStr(<<" ">>), JsStr(<<>>), Units(2)),
    NullItem }

\* all sequences over S of length 0..n
RECURSIVE SeqsUpTo(_, _)
SeqsUpTo(S, n) ==
  IF n = 0 THEN {<<>>}
  ELSE LET shorter == SeqsUpTo(S, n - 1)
       IN  shorter \cup {Append(s, x) : s \in {u \in shorter : Len(u) = n - 1}, x \in S}

\* what a fetch can settle with: a rejection (network failure), a response that
\* is not ok, an ok response whose body is not JSON, or an ok response with
\* JSON that holds the expected array or something else
Failure(kind) == [kind |-> kind, isArray |-> FALSE, list |-> <<>>]
FailureReplies == {Failure("network_error"), Failure("http_error"), Failure("bad_json")}
NotAnArray == [kind |-> "json", isArray |-> FALSE, list |-> <<>>]
JsonArray(list) == [kind |-> "json", isArray |-> TRUE, list |-> list]

NinjasReplies ==
  FailureReplies \cup {NotAnArray}
  \cup {JsonArray(l) : l \in SeqsUpTo(ItemSamples, MaxItems)}

\* the nutriments of a product
Nutriments(kcal, kj, p, c, ct, f) ==
  [isNull |-> FALSE,
   energy_kcal_100g |-> kcal, energy_100g |-> kj, proteins_100g |-> p,
   carbohydrates_100g |-> c, carbohydrates_total_g |-> ct, fat_100g |-> f,
   serving_size |-> JsUndefined, product_quantity |-> JsUndefined,
   quantity |-> JsUndefined]

\* a product with the portion fields set
WithPortion(n, ss, pq, qt) ==
  [n EXCEPT !.serving_size = ss, !.product_quantity = pq, !.quantity = qt]

ChickenBreast ==
  Nutriments(Units(165), JsUndefined, Units(31), Units(0), Units(2), JsNum(360))
KjOnly ==
  Nutriments(JsUndefined, Units(836), Abc, Units(40), JsUndefined, Units(-3))
NoNutriments ==
  Nutriments(JsUndefined, JsUndefined, JsUndefined, JsUndefined, JsUndefined, JsUndefined)
ProteinOnly ==
  Nutriments(Units(0), JsUndefined, Units(10), JsUndefined, JsUndefined, JsUndefined)
NegativeKcal ==
  Nutriments(Units(-20), JsUndefined, Units(1), Units(1), JsUndefined, Units(1))
NonNumericKcal ==
  Nutriments(Abc, JsUndefined, Units(1), Units(1), JsUndefined, Units(1))
TinyKcal ==
  Nutriments(Units(1), Units(4), JsUndefined, JsUndefined, JsUndefined, JsUndefined)
TinyKj ==
  Nutriments(JsUndefined, Units(2), Units(1), JsUndefined, JsUndefined, JsUndefined)
NonNumericKcalWithKj ==
  Nutriments(Abc, Units(1000), Units(1), Units(1), JsUndefined, Units(1))
NegativeKj ==
  Nutriments(Units(0), Units(-523), Units(1), Units(1), JsUndefined, Units(1))

ServingSizes ==
  { JsUndefined,
    JsStr(<<"3", "0", " ", "g">>),
    JsStr(<<"2", " ", "b", "a", "r", "s", " ", "(", "4", "5", ".", "5", "G", ")">>),
    JsStr(<<"0", " ", "g">>),
    JsStr(<<"1", " ", "b", "a", "r">>),
    Units(30) }

ProductQuantities ==
  { JsUndefined, Units(500), JsStr(<<"2", "5", "0">>), Abc, Units(-5) }

Quantities ==
  { JsUndefined,
    JsStr(<<"3", "0", "0", " ", "g">>),
    JsStr(<<"3", " ", "x", " ", "6", "0", " ", "g">>),
    JsStr(<<"0", "g">>),
    JsStr(<<"b", "i", "g">>),
    Units(300) }

\* products that are the only one of their reply
ProductSamples ==
  {WithPortion(ChickenBreast, ss, pq, qt) :
     ss \in ServingSizes, pq \in ProductQuantities, qt \in Quantities}
  \cup {WithPortion(n, ss, JsUndefined, JsUndefined) :
          n \in {KjOnly, TinyKcal, NegativeKcal}, ss \in ServingSizes}
  \cup {NoNutriments, ProteinOnly, NonNumericKcal, NullProduct,
        TinyKj, NonNumericKcalWithKj, NegativeKj}

\* products of the replies that hold several
ListedProducts == {NullProduct, NoNutriments, ProteinOnly, ChickenBreast, KjOnly}

OffReplies ==
  FailureReplies \cup {NotAnArray}
  \cup {JsonArray(<<p>>) : p \in ProductSamples}
  \cup {JsonArray(l) : l \in SeqsUpTo(ListedProducts, MaxProducts)}

(***************************************************************************)
(* The handler of one request                                              *)
(***************************************************************************)
VARIABLES
  pc,           \* where the handler is
  req,          \* req.query
  key,          \* process.env.API_NINJAS_KEY
  q,            \* const q: the trimmed query text
  ninjasCalls,  \* fetches sent to api.api-ninjas.com
  offCalls,     \* fetches sent to world.openfoodfacts.org
  reply,        \* what the fetch of the client that runs settled with
  ninjas,       \* const ninjas, once fetchFromApiNinjas has returned
  off,          \* const off, once fetchFromOpenFoodFacts has returned
  res,          \* the response sent
  description,  \* App.jsx: the text estimateFood is called with
  estimate      \* App.jsx: what estimateFood returned

vars ==
  <<pc, req, key, q, ninjasCalls, offCalls, reply, ninjas, off, res,
    description, estimate>>

\* the state of the page's local estimator, which the handler never touches
localVars == <<description, estimate>>

\* estimateFood has not been called
NoEstimate ==
  [description |-> <<>>, kcal |-> JsUndefined, protein_g |-> JsUndefined,
   carbs_g |-> JsUndefined, fat_g |-> JsUndefined, source |-> "", unit |-> ""]

\* a client that has not returned
Pending ==
  [tag |-> "pending", kcal |-> JsUndefined, protein_g |-> JsUndefined,
   carbs_g |-> JsUndefined, fat_g |-> JsUndefined]

NoReply == Failure("none")

NoResponse ==
  [status |-> 0, error |-> FALSE, kcal |-> JsUndefined, protein_g |-> JsUndefined,
   carbs_g |-> JsUndefined, fat_g |-> JsUndefined, source |-> ""]

\* res.status(status).json({ error: ... })
ErrorResponse(status) == [NoResponse EXCEPT !.status = status, !.error = TRUE]

\* res.status(200).json({ ...r, source })
EstimateResponse(r, source) ==
  [status |-> 200, error |-> FALSE, kcal |-> r.kcal, protein_g |-> r.protein_g,
   carbs_g |-> r.carbs_g, fat_g |-> r.fat_g, source |-> source]

\* line 46: nothing found
NoneResponse ==
  EstimateResponse(Totals(JsNum(0), JsNum(0), JsNum(0), JsNum(0)), "none")

\* the query text without .trim()
QueryTextUntrimmed(r) ==
  IF Truthy(r.q) THEN r.q.s ELSE IF Truthy(r.query) THEN r.query.s ELSE <<>>

\* line 33: (req.query.q || req.query.query || '').toString().trim()
QueryText(r) ==
  Trim(IF Truthy(r.q) THEN r.q.s ELSE IF Truthy(r.query) THEN r.query.s ELSE <<>>)

\* `x` alone, without `x.kcal > 0`
UsableWithoutKcalTest(r) == r.tag = "totals"

\* `x && x.kcal > 0` of lines 39 and 43
Usable(r) == r.tag = "totals" /\ GtZero(r.kcal)

Init ==
  /\ pc = "start"
  /\ req \in Requests
  /\ key \in Keys
  /\ q = <<>>
  /\ ninjasCalls = 0
  /\ offCalls = 0
  /\ reply = NoReply
  /\ ninjas = Pending
  /\ off = Pending
  /\ res = NoResponse
  /\ description = <<>>
  /\ estimate = NoEstimate

\* lines 33-34: read the query, refuse an empty one
handler_start ==
  /\ pc = "start"
  /\ q' = QueryText(req)
  /\ IF q' = <<>>
     THEN /\ res' = ErrorResponse(400)
          /\ pc' = "done"
     ELSE /\ pc' = "callNinjas"
          /\ UNCHANGED res
  /\ UNCHANGED <<req, key, ninjasCalls, offCalls, reply, ninjas, off,
                 description, estimate>>

\* lines 38, 52-55: fetchFromApiNinjas returns null without a key, else fetches
fetchFromApiNinjas_call ==
  /\ pc = "callNinjas"
  /\ IF ~Truthy(key)
     THEN /\ ninjas' = Null
          /\ pc' = "afterNinjas"
          /\ UNCHANGED ninjasCalls
     ELSE /\ ninjasCalls' = ninjasCalls + 1
          /\ pc' = "ninjasFetch"
          /\ UNCHANGED ninjas
  /\ UNCHANGED <<req, key, q, offCalls, reply, off, res, description, estimate>>

\* lines 55-68: the fetch settles and fetchFromApiNinjas returns or throws
fetchFromApiNinjas_settle ==
  /\ pc = "ninjasFetch"
  /\ \E r \in NinjasReplies :
       /\ reply' = r
       /\ IF ApiNinjasResult(r).tag = "throw"
          THEN /\ pc' = "catch"
               /\ UNCHANGED ninjas
          ELSE /\ ninjas' = ApiNinjasResult(r)
               /\ pc' = "afterNinjas"
  /\ UNCHANGED <<req, key, q, ninjasCalls, offCalls, off, res,
                 description, estimate>>

\* both clients started before the API Ninjas result is looked at
handler_afterNinjas_eager ==
  /\ pc = "afterNinjas"
  /\ offCalls' = offCalls + 1
  /\ IF Usable(ninjas)
     THEN /\ res' = EstimateResponse(ninjas, "api_ninjas")
          /\ pc' = "done"
     ELSE /\ pc' = "offFetch"
          /\ UNCHANGED res
  /\ reply' = NoReply
  /\ UNCHANGED <<req, key, q, ninjasCalls, ninjas, off, description, estimate>>

\* lines 39-42, 71-75: answer with the API Ninjas result, or call
\* fetchFromOpenFoodFacts, which fetches; the reply API Ninjas sent, a local
\* of fetchFromApiNinjas, is gone
handler_afterNinjas ==
  /\ pc = "afterNinjas"
  /\ IF Usable(ninjas)
     THEN /\ res' = EstimateResponse(ninjas, "api_ninjas")
          /\ pc' = "done"
          /\ UNCHANGED offCalls
     ELSE /\ offCalls' = offCalls + 1
          /\ pc' = "offFetch"
          /\ UNCHANGED res
  /\ reply' = NoReply
  /\ UNCHANGED <<req, key, q, ninjasCalls, ninjas, off, description, estimate>>

\* lines 75-104: the fetch settles and fetchFromOpenFoodFacts returns or throws
fetchFromOpenFoodFacts_settle ==
  /\ pc = "offFetch"
  /\ \E r \in OffReplies :
       /\ reply' = r
       /\ IF OpenFoodFactsResult(q, r).tag = "throw"
          THEN /\ pc' = "catch"
               /\ UNCHANGED off
          ELSE /\ off' = OpenFoodFactsResult(q, r)
               /\ pc' = "afterOff"
  /\ UNCHANGED <<req, key, q, ninjasCalls, offCalls, ninjas, res,
                 description, estimate>>

\* lines 43-46: answer with the Open Food Facts result or with nothing found
handler_afterOff ==
  /\ pc = "afterOff"
  /\ res' = IF Usable(off) THEN EstimateResponse(off, "open_food_facts")
            ELSE NoneResponse
  /\ pc' = "done"
  /\ UNCHANGED <<req, key, q, ninjasCalls, offCalls, reply, ninjas, off,
                 description, estimate>>

\* lines 47-49: an exception of either client ends the request with status 500
handler_catch ==
  /\ pc = "catch"
  /\ res' = ErrorResponse(500)
  /\ pc' = "done"
  /\ UNCHANGED <<req, key, q, ninjasCalls, offCalls, reply, ninjas, off,
                 description, estimate>>

Next ==
  \/ handler_start
  \/ fetchFromApiNinjas_call
  \/ fetchFromApiNinjas_settle
  \/ handler_afterNinjas
  \/ fetchFromOpenFoodFacts_settle
  \/ handler_afterOff
  \/ handler_catch

Spec == Init /\ [][Next]_vars

(***************************************************************************)
(* Properties                                                              *)
(***************************************************************************)
Done == pc = "done"

\* a client returned absent: null, or a result whose kcal is a number <= 0
Absent(r) ==
  \/ r.tag = "null"
  \/ r.tag = "totals" /\ r.kcal.t = "number" /\ r.kcal.n <= 0

\* a response that is an estimate: status 200, no error, a source tag
IsEstimate(r) ==
  /\ r.status = 200
  /\ ~r.error
  /\ r.source \in {"api_ninjas", "open_food_facts", "none"}

FetchFailures == {"network_error", "http_error", "bad_json"}

\* C1: Open Food Facts is called only once fetchFromApiNinjas has returned
\* without a usable result, and at most once; when fetchFromApiNinjas returns a
\* result with kcal > 0 the response is that result tagged api_ninjas and Open
\* Food Facts is never called.
C1_ExactMatchFirst ==
  /\ offCalls > 0 =>
       /\ offCalls = 1
       /\ ninjas.tag \in {"null", "totals"}
       /\ ~(ninjas.tag = "totals" /\ ninjas.kcal.t = "number" /\ ninjas.kcal.n > 0)
  /\ pc = "ninjasFetch" => offCalls = 0
  /\ (ninjas.tag = "totals" /\ ninjas.kcal.t = "number" /\ ninjas.kcal.n > 0) =>
       /\ offCalls = 0
       /\ Done =>
            /\ res.status = 200 /\ ~res.error /\ res.source = "api_ninjas"
            /\ res.kcal = ninjas.kcal /\ res.protein_g = ninjas.protein_g
            /\ res.carbs_g = ninjas.carbs_g /\ res.fat_g = ninjas.fat_g

C1_Witness ==
  /\ Done
  /\ ninjasCalls = 1
  /\ ninjas.tag = "totals" /\ ninjas.kcal = Units(150)
  /\ res.source = "api_ninjas"
  /\ offCalls = 0

\* C2: every request with a non-empty query ends with a well-formed estimate
\* (status 200, kcal, protein_g, carbs_g, fat_g, source), never with an error
\* response, whatever the two fetches settle with.
C2_NeverFails ==
  (Done /\ q # <<>>) =>
    /\ IsEstimate(res)
    /\ \A v \in {res.kcal, res.protein_g, res.carbs_g, res.fat_g} : v.t # "undefined"

\* C3: when the API Ninjas fetch ends in a network failure, a status that is
\* not ok or an unparseable body, fetchFromApiNinjas returns null without
\* throwing and the handler goes on to call Open Food Facts, the API Ninjas
\* fetch having been sent once.
C3_ExactMatchFailureIsAbsent ==
  /\ (pc \in {"afterNinjas", "catch"} /\ offCalls = 0 /\ reply.kind \in FetchFailures) =>
       pc = "afterNinjas" /\ ninjas = Null
  /\ (Done /\ ninjasCalls = 1 /\ ~(ninjas.tag = "totals")) =>
       offCalls = 1

\* C4: without an API key no fetch is sent to API Ninjas, and the request
\* still calls Open Food Facts and is answered with its result or with the
\* zero estimate tagged none.
C4_MissingKeyNotFatal ==
  (~Truthy(key) /\ q # <<>>) =>
    /\ ninjasCalls = 0
    /\ Done =>
         /\ offCalls = 1
         /\ IsEstimate(res)
         /\ res.source \in {"open_food_facts", "none"}

\* C5: when both clients return absent (null or a result with kcal <= 0) the
\* response is status 200 with exactly kcal 0, protein_g 0, carbs_g 0, fat_g 0,
\* source none.
C5_BothAbsentGivesNone ==
  (Done /\ Absent(ninjas) /\ Absent(off)) =>
    res = [status |-> 200, error |-> FALSE, kcal |-> JsNum(0), protein_g |-> JsNum(0),
           carbs_g |-> JsNum(0), fat_g |-> JsNum(0), source |-> "none"]

C5_Witness ==
  /\ Done
  /\ ninjasCalls = 1 /\ ninjas.tag = "null"
  /\ off.tag = "totals" /\ off.kcal.t = "number" /\ off.kcal.n <= 0
  /\ res.source = "none"

\* a query parameter that is missing, empty or only white space
BlankParam(v) ==
  \/ v.t = "undefined"
  \/ v.t = "string" /\ \A i \in 1..Len(v.s) : v.s[i] = " "

\* C6: a request whose query parameter is missing, empty or only white space
\* is answered with status 400 and an error message, and neither upstream
\* service is called.
C6_BlankQueryRejected ==
  (BlankParam(req.q) /\ BlankParam(req.query)) =>
    /\ ninjasCalls = 0 /\ offCalls = 0
    /\ pc \in {"start", "done"}
    /\ Done => res.status = 400 /\ res.error

C6_Witness ==
  /\ Done
  /\ req.q = JsStr(<<" ", " ">>) /\ req.query = JsUndefined
  /\ res.status = 400 /\ res.error
  /\ ninjasCalls = 0 /\ offCalls = 0

\* C7: every estimate the handler returns has kcal, protein_g, carbs_g and
\* fat_g present, numeric (not NaN) and non-negative.
C7_FieldsNumericNonNegative ==
  (Done /\ res.status = 200) =>
    \A v \in {res.kcal, res.protein_g, res.carbs_g, res.fat_g} :
      v.t = "number" /\ v.n >= 0

\* what an item's field counts for: its value when it is a number or a numeric
\* text, 0 when it is absent or not numeric
FieldValue(v) ==
  IF v.t = "number" THEN v.n
  ELSE IF v.t = "string" /\ StringToNumber(v.s).t = "number" THEN StringToNumber(v.s).n
  ELSE 0

RECURSIVE FieldSum(_, _)
FieldSum(items, field) ==
  IF items = <<>> THEN 0
  ELSE FieldValue(Head(items)[field]) + FieldSum(Tail(items), field)

\* C8: on a successful API Ninjas reply the client sums calories, protein_g,
\* carbohydrates_total_g and fat_total_g separately over all items, an absent
\* or non-numeric field counting as 0 (and returns null when the kcal sum is
\* not positive).
C8_SumsFieldsOverItems ==
  (/\ pc = "afterNinjas"
   /\ reply.kind = "json" /\ reply.isArray /\ reply.list # <<>>) =>
    IF FieldSum(reply.list, "calories") <= 0
    THEN ninjas = Null
    ELSE ninjas = Totals(JsNum(FieldSum(reply.list, "calories")),
                         JsNum(FieldSum(reply.list, "protein_g")),
                         JsNum(FieldSum(reply.list, "carbohydrates_total_g")),
                         JsNum(FieldSum(reply.list, "fat_total_g")))

\* C9: a client result with kcal <= 0 is treated as absent: fetchFromApiNinjas
\* never returns a result whose kcal is <= 0, a fetchFromOpenFoodFacts result
\* whose kcal is <= 0 is answered with the estimate tagged none, and every
\* response whose source is not none has kcal > 0.
C9_NonPositiveKcalIsAbsent ==
  /\ ninjas.tag = "totals" => ~(ninjas.kcal.t = "number" /\ ninjas.kcal.n <= 0)
  /\ (Done /\ off.tag = "totals" /\ off.kcal.t = "number" /\ off.kcal.n <= 0) =>
       res.source = "none"
  /\ (Done /\ res.status = 200 /\ res.source # "none") =>
       res.kcal.t = "number" /\ res.kcal.n > 0

C9_Witness ==
  /\ pc = "afterNinjas"
  /\ reply = JsonArray(<<Item(Units(-50), Units(-5), Units(0), Units(0)),
                         Item(Units(50), Units(5), JsUndefined, JsNull)>>)
  /\ ninjas = Null

\* the portions (in hundredths of a gram) the priority order allows for query
\* text s and product p: the first step that succeeds decides, a step
\* succeeding when its pattern or field yields a quantity (zeroCounts) or a
\* positive quantity (~zeroCounts); the quantity text may be read as a single
\* gram quantity or as a multipack
PriorityPortions(s, p, zeroCounts) ==
  LET Ok(m) == m.ok /\ (zeroCounts \/ m.v > 0)
      s1 == MatchQueryGrams(s)
      s2 == IF p.serving_size.t = "string" THEN MatchGrams(p.serving_size.s) ELSE NoMatch
      s3 == ParseFloat(p.product_quantity)
      s4 == IF p.quantity.t = "string"
            THEN {m \in {MatchGrams(p.quantity.s), MatchMultipack(p.quantity.s)} : Ok(m)}
            ELSE {}
  IN  IF Ok(s1) THEN {s1.v}
      ELSE IF Ok(s2) THEN {s2.v}
      ELSE IF s3.t = "number" /\ s3.n > 0 THEN {s3.n}
      ELSE IF s4 # {} THEN {m.v : m \in s4}
      ELSE {DefaultPortionG * Scale}

\* the result for product p eaten in a portion of g hundredths of a gram
ScaledBy(p, g) ==
  Totals(RoundScaled(KcalPer100(p), JsNum(g)),
         round2Scaled(num(p.proteins_100g), JsNum(g)),
         round2Scaled(IF Truthy(num(p.carbohydrates_100g))
                      THEN num(p.carbohydrates_100g)
                      ELSE num(p.carbohydrates_total_g), JsNum(g)),
         round2Scaled(num(p.fat_100g), JsNum(g)))

\* C10: the portion of an Open Food Facts result is the first that succeeds of
\* (1) the gram quantity of the query text, (2) the gram quantity of
\* serving_size, (3) a positive product_quantity, (4) the gram pattern of the
\* quantity text, (5) 100 g; kcal and macros per 100 g are scaled by portion/100.
C10_PortionPriority ==
  (pc = "afterOff" /\ off.tag = "totals") =>
    \E g \in PriorityPortions(q, PickProduct(reply.list), TRUE)
             \cup PriorityPortions(q, PickProduct(reply.list), FALSE) :
      off = ScaledBy(PickProduct(reply.list), g)

\* the example of C10: "200g chicken" against 165 kcal per 100 g gives kcal 330
\* whatever the product's serving_size is
C10_Example ==
  (/\ pc = "afterOff"
   /\ q = <<"2", "0", "0", "g", " ">> \o Chicken
   /\ reply.kind = "json" /\ Len(reply.list) = 1
   /\ reply.list[1].energy_kcal_100g = Units(165)) =>
    off.tag = "totals" /\ off.kcal = Units(330)

\* no earlier step gives a portion for query text s and product p: no gram
\* quantity in the query, none in serving_size, no positive product_quantity
NoEarlierPortion(s, p) ==
  /\ ~MatchQueryGrams(s).ok
  /\ ~(p.serving_size.t = "string" /\ MatchGrams(p.serving_size.s).ok)
  /\ ~(ParseFloat(p.product_quantity).t = "number" /\ ParseFloat(p.product_quantity).n > 0)

\* C11: when neither the query text nor serving_size nor product_quantity gives
\* a portion and the quantity text is a multipack "N x M g", the portion is
\* N times M grams ("3 x 60 g" gives 180 g).
C11_MultipackPortion ==
  (/\ pc = "afterOff"
   /\ reply.kind = "json" /\ reply.isArray /\ Len(reply.list) = 1
   /\ off.tag = "totals"
   /\ NoEarlierPortion(q, reply.list[1])
   /\ reply.list[1].quantity.t = "string"
   /\ MatchMultipack(reply.list[1].quantity.s).ok) =>
    off = ScaledBy(reply.list[1], MatchMultipack(reply.list[1].quantity.s).v)

\* a nutriment field that is present and not zero
NonZeroField(v) ==
  /\ v.t \notin {"undefined", "null"}
  /\ ~(v.t = "number" /\ v.n = 0)
  /\ ~(v.t = "string" /\ v.s = <<>>)

\* a product with at least one non-zero field among kcal/100g, kJ/100g,
\* protein/100g, carbs/100g and fat/100g
UsableProduct(p) ==
  /\ ~p.isNull
  /\ \/ NonZeroField(p.energy_kcal_100g)
     \/ NonZeroField(p.energy_100g)
     \/ NonZeroField(p.proteins_100g)
     \/ NonZeroField(p.carbohydrates_100g)
     \/ NonZeroField(p.fat_100g)

\* C12: the Open Food Facts client uses the first product of the list that is
\* usable; it returns null when no product is usable, and also when the kcal
\* per 100 g of the product it uses is 0 or absent, later products not being
\* looked at; otherwise it returns that product's values scaled by the portion.
C12_FirstUsableProduct ==
  (pc = "afterOff" /\ reply.kind = "json" /\ reply.isArray) =>
    LET U == {i \in 1..Len(reply.list) : UsableProduct(reply.list[i])}
    IN  IF U = {} THEN off = Null
        ELSE LET p == reply.list[CHOOSE i \in U : \A j \in U : i <= j]
             IN  IF KcalPer100(p).t = "number" /\ KcalPer100(p).n # 0
                 THEN off = ScaledBy(p, PortionG(q, p).n)
                 ELSE off = Null

C12_Witness ==
  /\ pc = "afterOff"
  /\ reply = JsonArray(<<NoNutriments, ChickenBreast>>)
  /\ off.tag = "totals"

\* the later product is not looked at when the first usable one has no kcal
C12_LaterProductIgnored ==
  (pc = "afterOff" /\ reply = JsonArray(<<ProteinOnly, ChickenBreast>>)) => off = Null

\* the integer nearest to kj / 4.184 (halves upwards), kj in hundredths of a
\* kJ and the result in hundredths of a kcal
NearestKcal(kj) ==
  LET m == IF kj < 0 THEN -kj ELSE kj
      k == CHOOSE k \in (-m \div Scale)..(m \div Scale) :
             /\ (2 * k - 1) * KjPerKcalMilli <= 20 * kj
             /\ 20 * kj < (2 * k + 1) * KjPerKcalMilli
  IN  k * Scale

\* the kcal per 100 g of product p (0 when neither field gives one): the direct
\* field when it is a number that is not zero, else the kJ field converted
NormalizedKcal(p) ==
  IF p.energy_kcal_100g.t = "number" /\ p.energy_kcal_100g.n # 0
  THEN p.energy_kcal_100g.n
  ELSE IF p.energy_100g.t = "number" /\ p.energy_100g.n # 0
       THEN NearestKcal(p.energy_100g.n)
       ELSE 0

\* C13: the kcal per 100 g is the direct energy-kcal_100g field when it is
\* present and not zero, and otherwise round(energy_100g / 4.184); the result
\* is scaled by the portion, and null is returned when the kcal per 100 g is 0
\* (energy_100g = 836 without energy-kcal_100g gives 200).
C13_EnergyNormalization ==
  (/\ pc = "afterOff"
   /\ reply.kind = "json" /\ reply.isArray /\ Len(reply.list) = 1
   /\ UsableProduct(reply.list[1])) =>
    IF NormalizedKcal(reply.list[1]) = 0
    THEN off = Null
    ELSE /\ off.tag = "totals"
         /\ off.kcal = RoundScaled(JsNum(NormalizedKcal(reply.list[1])),
                                   PortionG(q, reply.list[1]))

C13_Witness ==
  /\ pc = "afterOff"
  /\ q = Chicken
  /\ reply = JsonArray(<<KjOnly>>)
  /\ off.tag = "totals" /\ off.kcal = Units(200)

(***************************************************************************)
(* The local estimator of the page (src/src/src/App.jsx, estimateFood)     *)
(*                                                                         *)
(* The numbers of an estimate are products of a table value and a          *)
(* quantity, both in hundredths, and are kept exact: they count            *)
(* 1 / (Scale * Scale). The source tag `estimation (${hit.unit})` is the   *)
(* pair of fields source = "estimation" and unit.                          *)
(***************************************************************************)
\* the literal n of the source as a number of an estimate
Exact(n) == JsNum(n * Scale * Scale)

\* the longest integer every value of which is a finite double
\* (Number.MAX_VALUE is about 1.8 * 10^308)
MaxDoubleDigits == 308

JsInfinity == [t |-> "Infinity", n |-> 0, s |-> <<>>]

\* a * b of two numbers (a finite and not negative, b not negative):
\* 0 * Infinity is NaN
Times(a, b) ==
  IF b.t = "Infinity"
  THEN IF a = 0 THEN JsNaN ELSE JsInfinity
  ELSE JsNum(a * b.n)

\* String.prototype.toLowerCase
ToLowerCase(s) == [i \in 1..Len(s) |-> Lower(s[i])]

\* String.prototype.includes
Includes(s, w) ==
  \E i \in 1..(Len(s) - Len(w) + 1) : SubSeq(s, i, i + Len(w) - 1) = w

\* lines 23-34, values in hundredths
MINI_DB ==
  <<
    \* "roasted chicken breast"
    [key |-> <<"r", "o", "a", "s", "t", "e", "d", " ", "c", "h", "i", "c", "k", "e", "n", " ", "b", "r", "e", "a", "s", "t">>,
     kcal |-> 16500, p |-> 3100, c |-> 0, f |-> 360, unit |-> "per 100g"],
    \* "banana"
    [key |-> <<"b", "a", "n", "a", "n", "a">>,
     kcal |-> 10500, p |-> 130, c |-> 2700, f |-> 30, unit |-> "per medium"],
    \* "oat milk"
    [key |-> <<"o", "a", "t", " ", "m", "i", "l", "k">>,
     kcal |-> 12000, p |-> 300, c |-> 1600, f |-> 500, unit |-> "per 250ml"],
    \* "cooked rice"
    [key |-> <<"c", "o", "o", "k", "e", "d", " ", "r", "i", "c", "e">>,
     kcal |-> 20600, p |-> 430, c |-> 4500, f |-> 40, unit |-> "per cup"],
    \* "avocado"
    [key |-> <<"a", "v", "o", "c", "a", "d", "o">>,
     kcal |-> 24000, p |-> 300, c |-> 1250, f |-> 2200, unit |-> "per fruit"],
    \* "egg"
    [key |-> <<"e", "g", "g">>,
     kcal |-> 7800, p |-> 600, c |-> 60, f |-> 500, unit |-> "per egg"],
    \* "olive oil tbsp"
    [key |-> <<"o", "l", "i", "v", "e", " ", "o", "i", "l", " ", "t", "b", "s", "p">>,
     kcal |-> 11900, p |-> 0, c |-> 0, f |-> 1350, unit |-> "per tbsp"],
    \* "protein bar"
    [key |-> <<"p", "r", "o", "t", "e", "i", "n", " ", "b", "a", "r">>,
     kcal |-> 20000, p |-> 2000, c |-> 2000, f |-> 700, unit |-> "per bar"],
    \* "greek yogurt 0%"
    [key |-> <<"g", "r", "e", "e", "k", " ", "y", "o", "g", "u", "r", "t", " ", "0", "%">>,
     kcal |-> 5900, p |-> 1000, c |-> 360, f |-> 40, unit |-> "per 100g"],
    \* "pasta cooked"
    [key |-> <<"p", "a", "s", "t", "a", " ", "c", "o", "o", "k", "e", "d">>,
     kcal |-> 22000, p |-> 800, c |-> 4300, f |-> 130, unit |-> "per cup"]>>

KwChicken == <<"c", "h", "i", "c", "k", "e", "n">>
KwBeef == <<"b", "e", "e", "f">>
KwSalad == <<"s", "a", "l", "a", "d">>
KwSandwich == <<"s", "a", "n", "d", "w", "i", "c", "h">>

\* a find that keeps the last entry that matches
FindLastHit(d) ==
  LET H == {i \in 1..Len(MINI_DB) : Includes(d, MINI_DB[i].key)}
  IN  IF H = {} THEN 0 ELSE CHOOSE i \in H : \A j \in H : j <= i

\* line 38: MINI_DB.find((x) => d.includes(x.key)), as the index of the entry
\* found, 0 for undefined
FindHit(d) ==
  LET H == {i \in 1..Len(MINI_DB) : Includes(d, MINI_DB[i].key)}
  IN  IF H = {} THEN 0 ELSE CHOOSE i \in H : \A j \in H : i <= j

\* \d* taken greedily from i: the position after the digits that start at i
DigitRunEnd(s, i) ==
  LET N == {k \in i..Len(s) : ~IsDigit(s[k])}
  IN  IF N = {} THEN Len(s) + 1 ELSE CHOOSE k \in N : \A l \in N : k <= l

\* the number of digits of the integer that starts at i, leading zeros apart
IntegerDigits(s, i) ==
  LET j == DigitRunEnd(s, i)
      N == {k \in i..(j - 1) : s[k] # "0"}
  IN  IF N = {} THEN 0 ELSE j - (CHOOSE k \in N : \A l \in N : k <= l)

\* line 40: d.match(/(\d+\.?\d*)/) and parseFloat(qtyMatch[1]): the leftmost
\* digit starts the match, which takes the digits, a "." if one follows, and
\* the digits after it; an integer of more than MaxDoubleDigits digits is
\* above Number.MAX_VALUE and parses to Infinity
QtyMatch(d) ==
  LET I == {i \in 1..Len(d) : IsDigit(d[i])}
  IN  IF I = {} THEN [ok |-> FALSE, v |-> JsUndefined]
      ELSE LET i == CHOOSE i \in I : \A k \in I : i <= k
               j == DigitRunEnd(d, i)
               e == IF j <= Len(d) /\ d[j] = "." THEN DigitRunEnd(d, j + 1) ELSE j
           IN  [ok |-> TRUE,
                v |-> IF IntegerDigits(d, i) > MaxDoubleDigits
                      THEN JsInfinity
                      ELSE JsNum(DecimalValue(d, i, e))]

\* lines 41-42: the entry's values times qty
TableEstimate(desc, hit, qty) ==
  [description |-> desc,
   kcal |-> Times(hit.kcal, qty),
   protein_g |-> Times(hit.p, qty),
   carbs_g |-> Times(hit.c, qty),
   fat_g |-> Times(hit.f, qty),
   source |-> "estimation", unit |-> hit.unit]

\* the object literals of lines 44-48
FixedEstimate(desc, kcal, p, c, f, source) ==
  [description |-> desc, kcal |-> Exact(kcal), protein_g |-> Exact(p),
   carbs_g |-> Exact(c), fat_g |-> Exact(f), source |-> source, unit |-> ""]

\* the keyword tests with beef tested before chicken
HeuristicBeefFirst(desc, d) ==
  IF Includes(d, KwBeef) THEN FixedEstimate(desc, 300, 30, 0, 20, "estimate")
  ELSE IF Includes(d, KwChicken) THEN FixedEstimate(desc, 250, 40, 0, 8, "estimate")
  ELSE IF Includes(d, KwSalad) THEN FixedEstimate(desc, 180, 6, 12, 10, "estimate")
  ELSE IF Includes(d, KwSandwich) THEN FixedEstimate(desc, 350, 15, 40, 12, "estimate")
  ELSE FixedEstimate(desc, 250, 8, 30, 10, "generic estimate")

\* lines 44-48: the keyword tests and the generic estimate
Heuristic(desc, d) ==
  IF Includes(d, KwChicken) THEN FixedEstimate(desc, 250, 40, 0, 8, "estimate")
  ELSE IF Includes(d, KwBeef) THEN FixedEstimate(desc, 300, 30, 0, 20, "estimate")
  ELSE IF Includes(d, KwSalad) THEN FixedEstimate(desc, 180, 6, 12, 10, "estimate")
  ELSE IF Includes(d, KwSandwich) THEN FixedEstimate(desc, 350, 15, 40, 12, "estimate")
  ELSE FixedEstimate(desc, 250, 8, 30, 10, "generic estimate")

\* lines 36-49
estimateFood(desc) ==
  LET d == Trim(ToLowerCase(desc))
      hit == FindHit(d)
      qtyMatch == QtyMatch(d)
      qty == IF qtyMatch.ok THEN qtyMatch.v ELSE JsNum(Scale)
  IN  IF hit # 0
      THEN TableEstimate(desc, MINI_DB[hit], qty)
      ELSE Heuristic(desc, d)

\* a numeral above Number.MAX_VALUE
LongNumeral == [i \in 1..(MaxDoubleDigits + 2) |-> "9"]

\* the texts estimateFood is called with
Descriptions ==
  {LongNumeral \o <<" ">> \o MINI_DB[1].key,   \* "99...9 roasted chicken breast"
   LongNumeral \o <<" ">> \o MINI_DB[6].key,   \* "99...9 egg"
   LongNumeral \o <<" ">> \o KwSalad,          \* "99...9 salad"
   <<"r", "o", "a", "s", "t", "e", "d", " ", "c", "h", "i", "c", "k", "e", "n", " ", "b", "r", "e", "a", "s", "t">>,  \* "roasted chicken breast"
   <<"b", "a", "n", "a", "n", "a">>,  \* "banana"
   <<"o", "a", "t", " ", "m", "i", "l", "k">>,  \* "oat milk"
   <<"c", "o", "o", "k", "e", "d", " ", "r", "i", "c", "e">>,  \* "cooked rice"
   <<"a", "v", "o", "c", "a", "d", "o">>,  \* "avocado"
   <<"e", "g", "g">>,  \* "egg"
   <<"o", "l", "i", "v", "e", " ", "o", "i", "l", " ", "t", "b", "s", "p">>,  \* "olive oil tbsp"
   <<"p", "r", "o", "t", "e", "i", "n", " ", "b", "a", "r">>,  \* "protein bar"
   <<"g", "r", "e", "e", "k", " ", "y", "o", "g", "u", "r", "t", " ", "0", "%">>,  \* "greek yogurt 0%"
   <<"p", "a", "s", "t", "a", " ", "c", "o", "o", "k", "e", "d">>,  \* "pasta cooked"
   <<>>,  \* ""
   <<" ">>,  \* " "
   <<"2", " ", "e", "g", "g", "s">>,  \* "2 eggs"
   <<"2", " ", "b", "a", "n", "a", "n", "a">>,  \* "2 banana"
   <<"1", ".", "5", " ", "a", "v", "o", "c", "a", "d", "o">>,  \* "1.5 avocado"
   <<"3", " ", "p", "r", "o", "t", "e", "i", "n", " ", "b", "a", "r">>,  \* "3 protein bar"
   <<"0", ".", "5", " ", "c", "o", "o", "k", "e", "d", " ", "r", "i", "c", "e">>,  \* "0.5 cooked rice"
   <<"b", "a", "n", "a", "n", "a", " ", "2">>,  \* "banana 2"
   <<"2", ".", " ", "e", "g", "g">>,  \* "2. egg"
   <<"2", " ", "e", "g", "g", "s", " ", "a", "n", "d", " ", "3", " ", "b", "a", "n", "a", "n", "a">>,  \* "2 eggs and 3 banana"
   <<"b", "a", "n", "a", "n", "a", " ", "e", "g", "g">>,  \* "banana egg"
   <<"e", "g", "g", " ", "b", "a", "n", "a", "n", "a">>,  \* "egg banana"
   <<"r", "o", "a", "s", "t", "e", "d", " ", "c", "h", "i", "c", "k", "e", "n", " ", "b", "r", "e", "a", "s", "t", " ", "2", "0", "0", "g">>,  \* "roasted chicken breast 200g"
   <<"c", "h", "i", "c", "k", "e", "n">>,  \* "chicken"
   <<"g", "r", "i", "l", "l", "e", "d", " ", "c", "h", "i", "c", "k", "e", "n">>,  \* "grilled chicken"
   <<"b", "e", "e", "f">>,  \* "beef"
   <<"b", "e", "e", "f", " ", "s", "t", "e", "w">>,  \* "beef stew"
   <<"s", "a", "l", "a", "d">>,  \* "salad"
   <<"s", "a", "n", "d", "w", "i", "c", "h">>,  \* "sandwich"
   <<"c", "h", "i", "c", "k", "e", "n", " ", "s", "a", "l", "a", "d">>,  \* "chicken salad"
   <<"b", "e", "e", "f", " ", "a", "n", "d", " ", "c", "h", "i", "c", "k", "e", "n">>,  \* "beef and chicken"
   <<"s", "a", "l", "a", "d", " ", "s", "a", "n", "d", "w", "i", "c", "h">>,  \* "salad sandwich"
   <<"s", "a", "n", "d", "w", "i", "c", "h", " ", "w", "i", "t", "h", " ", "b", "e", "e", "f">>,  \* "sandwich with beef"
   <<"c", "h", "i", "c", "k", "e", "n", " ", "s", "a", "n", "d", "w", "i", "c", "h">>,  \* "chicken sandwich"
   <<"e", "g", "g", " ", "s", "a", "l", "a", "d">>,  \* "egg salad"
   <<"c", "h", "i", "c", "k", "e", "n", " ", "a", "n", "d", " ", "b", "a", "n", "a", "n", "a">>,  \* "chicken and banana"
   <<"p", "i", "z", "z", "a">>,  \* "pizza"
   <<"s", "o", "u", "p">>,  \* "soup"
   <<"a", "p", "p", "l", "e">>,  \* "apple"
   <<"2", " ", "p", "i", "z", "z", "a">>,  \* "2 pizza"
   <<" ", " ", "b", "A", "n", "A", "n", "A", " ", " ">>,  \* "  bAnAnA  "
   <<"e", "G", "G">>,  \* "eGG"
   <<"S", "A", "l", "A", "d">>,  \* "SAlAd"
   <<"-", "2", " ", "b", "a", "n", "a", "n", "a">>,  \* "-2 banana"
   <<"1", "0", " ", "e", "g", "g">>,  \* "10 egg"
   <<"2", " ", "g", "r", "e", "e", "k", " ", "y", "o", "g", "u", "r", "t", " ", "0", "%">>,  \* "2 greek yogurt 0%"
   <<"0", " ", "e", "g", "g">>,  \* "0 egg"
   <<"1", ".", "2", "5", " ", "o", "a", "t", " ", "m", "i", "l", "k">>,  \* "1.25 oat milk"
   <<"p", "a", "s", "t", "a">>,  \* "pasta"
   <<"r", "i", "c", "e">>,  \* "rice"
   <<"c", "o", "o", "k", "e", "d", " ", "r", "i", "c", "e", " ", "a", "n", "d", " ", "p", "a", "s", "t", "a", " ", "c", "o", "o", "k", "e", "d">>,  \* "cooked rice and pasta cooked"
   <<"p", "a", "s", "t", "a", " ", "c", "o", "o", "k", "e", "d", " ", "w", "i", "t", "h", " ", "c", "o", "o", "k", "e", "d", " ", "r", "i", "c", "e">>,  \* "pasta cooked with cooked rice"
   <<"o", "l", "i", "v", "e", " ", "o", "i", "l">>,  \* "olive oil"
   <<"3", " ", "o", "l", "i", "v", "e", " ", "o", "i", "l", " ", "t", "b", "s", "p">>,  \* "3 olive oil tbsp"
   <<"y", "o", "g", "u", "r", "t">>,  \* "yogurt"
   <<"1", ".", ".", "5", " ", "e", "g", "g">>,  \* "1..5 egg"
   <<"e", "g", "g", " ", "1", ".", "5", ".", "2">>,  \* "egg 1.5.2"
   <<"b", "e", "e", "f", " ", "s", "a", "n", "d", "w", "i", "c", "h">>,  \* "beef sandwich"
   <<"1", "0", "0", " ", "s", "a", "l", "a", "d">>,  \* "100 salad"
   <<"a", "v", "o", "c", "a", "d", "o", " ", "s", "a", "n", "d", "w", "i", "c", "h">>,  \* "avocado sandwich"
   <<"1", "2", " ", "b", "e", "e", "f">>  \* "12 beef"
  }

\* the handler is not running
Idle == "idle"

InitLocal ==
  /\ description \in Descriptions
  /\ estimate = NoEstimate
  /\ pc = Idle
  /\ req = [q |-> JsUndefined, query |-> JsUndefined]
  /\ key = JsUndefined
  /\ q = <<>>
  /\ ninjasCalls = 0
  /\ offCalls = 0
  /\ reply = NoReply
  /\ ninjas = Pending
  /\ off = Pending
  /\ res = NoResponse

\* line 85: const est = estimateFood(desc)
estimateFood_call ==
  /\ estimate = NoEstimate
  /\ estimate' = estimateFood(description)
  /\ UNCHANGED <<pc, req, key, q, ninjasCalls, offCalls, reply, ninjas, off, res,
                 description>>

NextLocal == estimateFood_call

SpecLocal == InitLocal /\ [][NextLocal]_vars

(***************************************************************************)
(* Claims about the local estimator (checked under SpecLocal)              *)
(***************************************************************************)
\* estimateFood has returned
Estimated == estimate # NoEstimate

\* the text estimateFood searches: lower case, trimmed
Normalized == Trim(ToLowerCase(description))

\* the table entries whose key the normalized text contains
Matching == {i \in 1..Len(MINI_DB) : Includes(Normalized, MINI_DB[i].key)}

\* t is written as an integer or a decimal: digits, with at most one point
\* after the first digit
IsNumeral(t) ==
  /\ t # <<>>
  /\ IsDigit(t[1])
  /\ \A k \in 1..Len(t) : IsDigit(t[k]) \/ t[k] = "."
  /\ Cardinality({k \in 1..Len(t) : t[k] = "."}) <= 1

\* the number the numeral d[i .. e] denotes: Infinity above the range of
\* the numbers, otherwise its value in hundredths
NumeralValue(d, i, e) ==
  LET P == {k \in i..e : d[k] = "."}
      last == IF P = {} THEN e ELSE (CHOOSE k \in P : TRUE) - 1
      Z == {k \in i..last : \A l \in i..k : d[l] = "0"}
  IN  IF (last - i + 1) - Cardinality(Z) > MaxDoubleDigits
      THEN JsInfinity
      ELSE JsNum(DecimalValue(d, i, e + 1))

\* the multiplier the text asks for: its first numeric token (the longest
\* numeral that starts at its first digit), 1 without a digit
Multiplier ==
  LET d == Normalized
      I == {i \in 1..Len(d) : IsDigit(d[i])}
  IN  IF I = {} THEN JsNum(Scale)
      ELSE LET i == CHOOSE i \in I : \A k \in I : i <= k
               E == {e \in i..Len(d) : IsNumeral(SubSeq(d, i, e))}
               e == CHOOSE e \in E : \A k \in E : k <= e
           IN  NumeralValue(d, i, e)

\* C14: a description that contains a table key (lower-cased and trimmed) is
\* estimated from the first such entry in declaration order, is tagged as a
\* table match, and its kcal and macros are that entry's values times the
\* first numeric token of the text, or times 1 when it has none
C14_TableMatch ==
  (Estimated /\ Matching # {}) =>
    LET hit == MINI_DB[CHOOSE i \in Matching : \A j \in Matching : i <= j]
    IN  /\ estimate.source = "estimation"
        /\ estimate.unit = hit.unit
        /\ estimate.kcal = Times(hit.kcal, Multiplier)
        /\ estimate.protein_g = Times(hit.p, Multiplier)
        /\ estimate.carbs_g = Times(hit.c, Multiplier)
        /\ estimate.fat_g = Times(hit.f, Multiplier)

\* "2 eggs and 3 banana": banana is declared before egg, 2 is the first number
C14_Witness ==
  /\ Estimated
  /\ description = <<"2", " ", "e", "g", "g", "s", " ", "a", "n", "d", " ", "3", " ", "b", "a", "n", "a", "n", "a">>
  /\ estimate.unit = "per medium"
  /\ estimate.kcal = Exact(210)

\* the heuristic keywords in their order of priority, and the estimate of
\* each: kcal, protein, carbs, fat
Keywords == <<KwChicken, KwBeef, KwSalad, KwSandwich>>

KeywordValues ==
  <<<<250, 40, 0, 8>>, <<300, 30, 0, 20>>, <<180, 6, 12, 10>>, <<350, 15, 40, 12>>>>

GenericValues == <<250, 8, 30, 10>>

\* the estimate has exactly the four values w
HasValues(w) ==
  /\ estimate.kcal = Exact(w[1])
  /\ estimate.protein_g = Exact(w[2])
  /\ estimate.carbs_g = Exact(w[3])
  /\ estimate.fat_g = Exact(w[4])

\* C15: a description with no table key gets the fixed estimate of the first
\* keyword it contains in the order chicken, beef, salad, sandwich, tagged as
\* heuristic; with none of them it gets the fixed generic estimate, tagged as
\* generic; a description with a table key is always a table match
C15_HeuristicFallback ==
  Estimated =>
    IF Matching # {}
    THEN estimate.source = "estimation"
    ELSE LET K == {i \in 1..Len(Keywords) : Includes(Normalized, Keywords[i])}
         IN  IF K = {}
             THEN estimate.source = "generic estimate" /\ HasValues(GenericValues)
             ELSE /\ estimate.source = "estimate"
                  /\ HasValues(KeywordValues[CHOOSE i \in K : \A j \in K : i <= j])

\* "beef and chicken": chicken has priority although beef comes first
C15_Witness ==
  /\ Estimated
  /\ description = <<"b", "e", "e", "f", " ", "a", "n", "d", " ", "c", "h", "i", "c", "k", "e", "n">>
  /\ estimate.source = "estimate"
  /\ estimate.kcal = Exact(250)
  /\ estimate.protein_g = Exact(40)

\* C16: for every text, the empty one included, estimateFood returns a result
\* whose kcal is not negative and whose protein, carbs and fat are present
\* and numeric (a number, not undefined and not NaN)
C16_EstimateAlwaysNumeric ==
  Estimated =>
    /\ estimate.kcal.t \in {"number", "Infinity"}
    /\ estimate.kcal.t = "number" => estimate.kcal.n >= 0
    /\ \A v \in {estimate.protein_g, estimate.carbs_g, estimate.fat_g} :
         v.t \in {"number", "Infinity"}

\* C17: a description that is exactly the key of a table entry returns exactly
\* that entry's kcal and macros: the multiplier is 1 and the result is not zero
C17_ExactKeyReturnsEntry ==
  \A i \in 1..Len(MINI_DB) :
    (Estimated /\ description = MINI_DB[i].key) =>
      /\ estimate.kcal = JsNum(MINI_DB[i].kcal * Scale)
      /\ estimate.protein_g = JsNum(MINI_DB[i].p * Scale)
      /\ estimate.carbs_g = JsNum(MINI_DB[i].c * Scale)
      /\ estimate.fat_g = JsNum(MINI_DB[i].f * Scale)
      /\ estimate.kcal.n # 0

====
